---- MODULE Spec2Model ----
(***************************************************************************)
(* Model of lambdas/exif/handler.py: the EXIF Lambda.  exif_handler walks  *)
(* the SNS records of an event, decodes each SNS message into S3 change    *)
(* records, and for each change record downloads the image, builds the    *)
(* metadata mapping, uploads a JSON sidecar and counts the record as      *)
(* processed or failed.                                                    *)
(*                                                                         *)
(* Strings that the code takes apart (object keys) are sequences of        *)
(* tokens: "/" and "." are tokens of their own, every other token is a     *)
(* run of characters holding neither.  Path(...).stem is modelled with    *)
(* the semantics of pathlib's PurePosixPath (name.rfind('.')).             *)
(***************************************************************************)
EXTENDS Integers, Sequences, FiniteSets, TLC

\* ------------------------------------------------------------------ bounds
MaxEntries == 2     \* SNS records in one event
MaxRecords == 2     \* S3 change records in one SNS message

\* ------------------------------------------------------------- input sets
Absent    == "<absent>"         \* a bucket name the change record does not carry
AbsentKey == <<"<absent>">>     \* an object key the change record does not carry
Unbound   == <<"<unbound>">>    \* object_key before its first assignment
NoLog     == <<"<no log>">>     \* no per-record failure line was printed
NoImage   == [tags |-> {}, bad |-> {}]
NoEvent   == [bucket |-> "<none>", key |-> <<"<none>">>]

Buckets == {"uploads", "archive"}

Keys == { <<"photos", "/", "trip", "/", "img001", ".", "JPG">>,
          <<"scan", ".", "tar", ".", "gz">>,
          <<"trip", "/", ".", "hidden">>,
          <<"raw">> }

\* what line 38 raises on an SNS record whose message does not decode:
\* sns_record['Sns']['Message'] a KeyError, json.loads a JSONDecodeError
DecodeErrors == {"KeyError", "JSONDecodeError"}

\* a change record: s3.bucket.name and s3.object.key, each possibly missing
ChangeRecords == [bucket : Buckets \cup {Absent}, key : Keys \cup {AbsentKey}]

\* a decoded image: the ids of its EXIF tags, and those of them whose str()
\* raises
Tags == {271, 272}
Images == {im \in [tags : {{}, Tags}, bad : SUBSET Tags] : im.bad \subseteq im.tags}

\* how the try body of one record can fail for reasons of its environment:
\* download_from_s3 raises (no image is had), json.dumps raises, or
\* upload_to_s3 raises
Failures == {[failAt |-> "download", img |-> NoImage]}
                \cup [failAt : {"dumps", "upload"}, img : Images]
\* the runs in which the environment fails nothing
Runs == [failAt : {"none"}, img : Images]

\* ------------------------------------------------- Path(object_key).stem
RECURSIVE Components(_)
\* the "/"-separated components of a key, in order
Components(s) ==
    IF \A p \in 1..Len(s) : s[p] # "/"
    THEN <<s>>
    ELSE LET cut == CHOOSE p \in 1..Len(s) :
                        s[p] = "/" /\ \A q \in 1..(p - 1) : s[q] # "/"
         IN  <<SubSeq(s, 1, cut - 1)>> \o Components(SubSeq(s, cut + 1, Len(s)))

IsPart(c) == c # <<>> /\ c # <<".">>

\* pathlib drops empty and "." components when it parses a path
PathParts(s) == SelectSeq(Components(s), IsPart)

\* Path(s).name: the final component, '' when there is none
PathName(s) ==
    LET parts == PathParts(s)
    IN  IF parts = <<>> THEN <<>> ELSE parts[Len(parts)]

\* name.rfind('.'), 1-based; 0 when there is no "."
RFindDot(name) ==
    IF \A p \in 1..Len(name) : name[p] # "."
    THEN 0
    ELSE CHOOSE p \in 1..Len(name) :
             name[p] = "." /\ \A q \in (p + 1)..Len(name) : name[q] # "."

\* the mutant: the name is cut at its first "." instead of its last
StemAtFirstDot(s) ==
    LET name == PathName(s)
    IN  IF \A p \in 1..Len(name) : name[p] # "."
        THEN name
        ELSE LET d == CHOOSE p \in 1..Len(name) :
                          name[p] = "." /\ \A q \in 1..(p - 1) : name[q] # "."
             IN  IF d > 1 THEN SubSeq(name, 1, d - 1) ELSE name

\* Path(s).stem: the name without its last suffix; a leading or a trailing
\* "." starts no suffix
Stem(s) ==
    LET name == PathName(s)
        d    == RFindDot(name)
    IN  IF 1 < d /\ d < Len(name) THEN SubSeq(name, 1, d - 1) ELSE name

\* f"processed/exif/{filename}.json"
OutputKey(key) == <<"processed", "/", "exif", "/">> \o Stem(key) \o <<".", "json">>

\* --------------------------------------------------------- the metadata
BaseKeys == {"width", "height", "format", "mode"}

\* the mutant: no try around the rendering of a tag
ExifDataNoTagGuard(img) ==
    [raised |-> img.bad # {},
     keys   |-> BaseKeys \cup {ToString(t) : t \in img.tags \ img.bad}]

\* exif_data after the loop over exif.items(): a tag whose str() raises is
\* skipped by the except of line 69, nothing is raised
ExifData(img) ==
    [raised |-> FALSE,
     keys   |-> BaseKeys \cup {ToString(t) : t \in img.tags \ img.bad}]

\* the mutant: the caller's content type is dropped for the default
UploadDefaultType(bucket, key, data, content_type) ==
    [Bucket |-> bucket, Key |-> key, Body |-> data, ContentType |-> "image/jpeg"]

\* upload_to_s3 with data a str: put_object(Bucket, Key, Body, ContentType)
upload_to_s3(bucket, key, data, content_type) ==
    [Bucket |-> bucket, Key |-> key, Body |-> data, ContentType |-> content_type]

\* lines 43-45 raise no KeyError: the record carries s3.bucket.name and
\* s3.object.key
HasFields(rec) == rec.bucket # Absent /\ rec.key # AbsentKey

\* the mutant: the object is written although upload_to_s3 raises
PipelineWritesOnUploadError(rec, img, failAt) ==
    LET fields == HasFields(rec)
        loaded == fields /\ failAt # "download"
        meta   == IF loaded THEN ExifData(img) ELSE ExifData(NoImage)
        dumped == loaded /\ ~meta.raised /\ failAt # "dumps"
    IN  [raised  |-> ~(dumped /\ failAt = "none"),
         fetches |-> IF fields THEN 1 ELSE 0,
         uploads |-> IF dumped THEN 1 ELSE 0,
         put     |-> IF dumped
                     THEN {upload_to_s3(rec.bucket, OutputKey(rec.key),
                                        meta.keys, "application/json")}
                     ELSE {}]

\* lines 43-84 for one change record: whether the try body raises, how many
\* downloads and uploads it issues, and the object it writes
Pipeline(rec, img, failAt) ==
    LET fields == HasFields(rec)
        loaded == fields /\ failAt # "download"
        meta   == IF loaded THEN ExifData(img) ELSE ExifData(NoImage)
        dumped == loaded /\ ~meta.raised /\ failAt # "dumps"
        done   == dumped /\ failAt = "none"
    IN  [raised  |-> ~done,
         fetches |-> IF fields THEN 1 ELSE 0,
         uploads |-> IF dumped THEN 1 ELSE 0,
         put     |-> IF done
                     THEN {upload_to_s3(rec.bucket, OutputKey(rec.key),
                                        meta.keys, "application/json")}
                     ELSE {}]

\* object_key after lines 43-45: assigned only when neither lookup before
\* it (s3, bucket.name) nor its own (object.key) raises KeyError
KeyAfter(rec, before) == IF HasFields(rec) THEN rec.key ELSE before

\* 'statusCode': 200 if failed_count == 0 else 207
OK == 200
MultiStatus == 207

\* the mutant: the test is on the processed count
StatusCodeByProcessed(processed, failed) == IF processed > 0 THEN OK ELSE MultiStatus

StatusCode(processed, failed) == IF failed = 0 THEN OK ELSE MultiStatus

\* the mutant: the handlers name the errors they expect
CatchesExpected(exc) == exc \in {"KeyError", "JSONDecodeError", "ClientError"}

\* "except Exception" (lines 88 and 93) catches every error raised here
Catches(exc) == TRUE

VARIABLES
    total,            \* len(event.get('Records', []))
    i,                \* SNS records consumed by the loop of line 35
    n,                \* change records of the message being walked
    j,                \* change records consumed by the loop of line 41
    s3_event,         \* the change record the loop of line 41 is on
    processed_count,
    failed_count,
    object_key,       \* the local of line 45: Unbound until first assigned
    pc,               \* "outer" (line 35), "inner" (line 41), "body" (line 42),
                      \* "returned", or "raised" (an exception left the handler)
    summary,          \* the returned dict
    decoded,          \* history: change records held by the messages that decoded
    undecodable,      \* history: SNS records whose message did not decode
    seen,             \* history: SNS records line 38 was run on
    attempted,        \* history: change records whose try body was entered
    puts,             \* history: completed put_object calls
    last              \* history: what the latest loop step did

vars == <<total, i, n, j, s3_event, processed_count, failed_count, object_key, pc,
          summary, decoded, undecodable, seen, attempted, puts, last>>

\* what one loop step did, read off the state before and after it
Step(kind, env, run, logged) ==
    [kind |-> kind, img |-> env.img, failAt |-> env.failAt,
     dp |-> processed_count' - processed_count,
     df |-> failed_count' - failed_count,
     dputs |-> puts' - puts,
     fetches |-> run.fetches, uploads |-> run.uploads, put |-> run.put,
     logged |-> logged]

NoEnv == [failAt |-> "none", img |-> NoImage]
NoRun == [raised |-> FALSE, fetches |-> 0, uploads |-> 0, put |-> {}]

Init ==
    /\ total \in 0..MaxEntries
    /\ i = 0
    /\ n = 0
    /\ j = 0
    /\ s3_event = NoEvent
    /\ processed_count = 0
    /\ failed_count = 0
    /\ object_key = Unbound
    /\ pc = "outer"
    /\ summary = [statusCode |-> 0, processed |-> 0, failed |-> 0]
    /\ decoded = 0
    /\ undecodable = 0
    /\ seen = 0
    /\ attempted = 0
    /\ puts = 0
    /\ last = [kind |-> "none", img |-> NoImage, failAt |-> "none", dp |-> 0,
               df |-> 0, dputs |-> 0, fetches |-> 0, uploads |-> 0, put |-> {},
               logged |-> NoLog]

\* the mutant: the handler of line 93 gives up on the rest of the event
OuterExceptBreaks(exc) ==
    IF Catches(exc)
    THEN [pc |-> "outer", failed |-> failed_count + 1, i |-> total]
    ELSE [pc |-> "raised", failed |-> failed_count, i |-> i]

\* lines 93-95: an exception that reaches the outer try is caught, counted
\* as one failure, and the loop of line 35 goes on with the next SNS record;
\* an exception the handler does not catch leaves exif_handler
OuterExcept(exc) ==
    IF Catches(exc)
    THEN [pc |-> "outer", failed |-> failed_count + 1, i |-> i + 1]
    ELSE [pc |-> "raised", failed |-> failed_count, i |-> i]

\* line 38 succeeds on the next SNS record, whose message holds m change
\* records: the loop of line 41 starts
DecodeEntry(m) ==
    /\ pc = "outer" /\ i < total
    /\ n' = m
    /\ j' = 0
    /\ pc' = "inner"
    /\ decoded' = decoded + m
    /\ seen' = seen + 1
    /\ UNCHANGED <<total, i, s3_event, processed_count, failed_count, object_key,
                   summary, undecodable, attempted, puts>>
    /\ last' = Step("decoded", NoEnv, NoRun, NoLog)

\* line 38 raises on the next SNS record: lines 93-95
DecodeFails(exc) ==
    /\ pc = "outer" /\ i < total
    /\ LET h == OuterExcept(exc)
       IN  /\ pc' = h.pc
           /\ failed_count' = h.failed
           /\ i' = h.i
    /\ undecodable' = undecodable + 1
    /\ seen' = seen + 1
    /\ UNCHANGED <<total, n, j, s3_event, processed_count, object_key, summary,
                   decoded, attempted, puts>>
    /\ last' = Step("undecodable", NoEnv, NoRun, NoLog)

\* line 41 takes the next change record of the message and the try body of
\* line 42 is entered
NextRecord(rec) ==
    /\ pc = "inner" /\ j < n
    /\ s3_event' = rec
    /\ j' = j + 1
    /\ pc' = "body"
    /\ attempted' = attempted + 1
    /\ UNCHANGED <<total, i, n, processed_count, failed_count, object_key, summary,
                   decoded, undecodable, seen, puts>>
    /\ last' = Step("taken", NoEnv, NoRun, NoLog)

\* the loop of line 41 is exhausted: on to the next SNS record
EndEntry ==
    /\ pc = "inner" /\ j = n
    /\ i' = i + 1
    /\ pc' = "outer"
    /\ UNCHANGED <<total, n, j, s3_event, processed_count, failed_count, object_key,
                   summary, decoded, undecodable, seen, attempted, puts>>
    /\ last' = Step("entry done", NoEnv, NoRun, NoLog)

\* lines 43-86 run through: the sidecar is stored and the record is counted
\* as processed
RecordSucceeds(env) ==
    LET run == Pipeline(s3_event, env.img, env.failAt)
    IN  /\ pc = "body"
        /\ ~run.raised
        /\ object_key' = KeyAfter(s3_event, object_key)
        /\ puts' = puts + Cardinality(run.put)
        /\ processed_count' = processed_count + 1
        /\ pc' = "inner"
        /\ UNCHANGED <<total, i, n, j, s3_event, failed_count, summary, decoded,
                       undecodable, seen, attempted>>
        /\ last' = Step("record", env, run, NoLog)

\* the try body raises and object_key is bound: lines 88-91 count one
\* failure and print "Failed to process {object_key}".  A record without
\* its fields reaches neither the download nor the upload.
RecordFails(env) ==
    LET run == Pipeline(s3_event, env.img, env.failAt)
    IN  /\ pc = "body"
        /\ HasFields(s3_event) \/ env = NoEnv
        /\ run.raised
        /\ KeyAfter(s3_event, object_key) # Unbound
        /\ object_key' = KeyAfter(s3_event, object_key)
        /\ puts' = puts + Cardinality(run.put)
        /\ failed_count' = failed_count + 1
        /\ pc' = "inner"
        /\ UNCHANGED <<total, i, n, j, s3_event, processed_count, summary, decoded,
                       undecodable, seen, attempted>>
        /\ last' = Step("record", env, run, object_key')

\* the try body raises before object_key was ever assigned: line 89 counts
\* the failure, line 90 raises UnboundLocalError inside the handler, which
\* leaves the loop of line 41 and reaches the outer handler (lines 93-95)
RecordFailsUnbound ==
    LET run == Pipeline(s3_event, NoImage, "none")
        h   == OuterExcept("UnboundLocalError")
    IN  /\ pc = "body"
        /\ run.raised
        /\ KeyAfter(s3_event, object_key) = Unbound
        /\ pc' = h.pc
        /\ failed_count' = h.failed + 1
        /\ i' = h.i
        /\ puts' = puts + Cardinality(run.put)
        /\ UNCHANGED <<total, n, j, s3_event, processed_count, object_key, summary,
                       decoded, undecodable, seen, attempted>>
        /\ last' = Step("record", NoEnv, run, NoLog)

\* lines 97-104
Return ==
    /\ pc = "outer" /\ i >= total
    /\ summary' = [statusCode |-> StatusCode(processed_count, failed_count),
                   processed  |-> processed_count,
                   failed     |-> failed_count]
    /\ pc' = "returned"
    /\ UNCHANGED <<total, i, n, j, s3_event, processed_count, failed_count,
                   object_key, decoded, undecodable, seen, attempted, puts, last>>

\* lines 42-91 for the change record taken, whatever its outcome
BodyStep ==
    \/ \E env \in Runs : RecordSucceeds(env)
    \/ \E env \in Failures \cup Runs : RecordFails(env)
    \/ RecordFailsUnbound

Next ==
    \/ \E m \in 0..MaxRecords : DecodeEntry(m)
    \/ \E exc \in DecodeErrors : DecodeFails(exc)
    \/ \E rec \in ChangeRecords : NextRecord(rec)
    \/ EndEntry
    \/ \E env \in Runs : RecordSucceeds(env)
    \/ \E env \in Failures \cup Runs : RecordFails(env)
    \/ RecordFailsUnbound
    \/ Return

Spec == Init /\ [][Next]_vars

\* ------------------------------------------------------------ the claims

\* C1: when exif_handler returns, processed + failed equals the number of
\* change records held by the messages that decoded plus the number of SNS
\* records whose message did not decode.
C1_CountsAddUp ==
    pc = "returned" =>
        summary.processed + summary.failed = decoded + undecodable

\* C2: whatever fails, every change record of every decoded message has had
\* its try body entered by the time the summary is returned: none is skipped
\* because an earlier one failed.
C2_NoRecordSkipped ==
    pc = "returned" => attempted = decoded

\* C3: no error leaves exif_handler: the call never ends by raising, every
\* try body that is entered is left towards the next loop step, the loops run
\* on until the handler returns, and what it returns is the summary of the two
\* counters.
C3_NoErrorEscapes ==
    /\ pc # "raised"
    /\ pc = "body" => ENABLED BodyStep
    /\ pc = "outer" => (i < total \/ ENABLED Return)
    /\ pc = "inner" => (j < n \/ ENABLED EndEntry)
    /\ pc = "returned" =>
           /\ summary.processed = processed_count
           /\ summary.failed = failed_count

C3_Witness ==
    /\ pc = "returned"
    /\ undecodable > 0
    /\ last.kind = "record" /\ ~HasFields(s3_event) /\ last.logged = NoLog

\* C4: one change record raises exactly one of the two counters, by exactly 1.
C4_OneCounterOnce ==
    last.kind = "record" =>
        /\ last.dp + last.df = 1
        /\ last.dp \in {0, 1}
        /\ last.df \in {0, 1}

\* C5: the returned statusCode is 200 exactly when failed is 0 and is 207
\* otherwise; an empty event returns {200, 0, 0}.
C5_StatusCode ==
    pc = "returned" =>
        /\ summary.statusCode \in {200, 207}
        /\ summary.statusCode = 200 <=> summary.failed = 0
        /\ summary.failed = failed_count
        /\ total = 0 => summary = [statusCode |-> 200, processed |-> 0, failed |-> 0]

C5_Witness ==
    /\ pc = "returned"
    /\ summary.statusCode = 207
    /\ summary.processed > 0

RECURSIVE WithoutDirectory(_)
WithoutDirectory(k) ==
    IF k = <<>> \/ k[Len(k)] = "/" THEN <<>>
    ELSE Append(WithoutDirectory(SubSeq(k, 1, Len(k) - 1)), k[Len(k)])

\* a file name without its extension: the extension is the last "." and what
\* follows, when something precedes and something follows that "."
WithoutExtension(name) ==
    LET dots == {p \in 2..(Len(name) - 1) : name[p] = "."}
    IN  IF dots = {} \/ name[Len(name)] = "." THEN name
        ELSE SubSeq(name, 1, (CHOOSE p \in dots : \A q \in dots : q <= p) - 1)

\* C7: a change record that is processed stores exactly one sidecar, in the
\* bucket the image came from, with content type application/json, at
\* processed/exif/<base-name>.json, <base-name> being the object key without
\* its directory prefix and file extension.
C7_SidecarKey ==
    /\ OutputKey(<<"photos", "/", "trip", "/", "img001", ".", "JPG">>)
           = <<"processed", "/", "exif", "/", "img001", ".", "json">>
    /\ (last.kind = "record" /\ last.dp = 1) =>
           /\ Cardinality(last.put) = 1
           /\ last.dputs = 1
           /\ \A o \in last.put :
                  /\ o.Bucket = s3_event.bucket
                  /\ o.ContentType = "application/json"
                  /\ o.Key = <<"processed", "/", "exif", "/">>
                                 \o WithoutExtension(WithoutDirectory(s3_event.key))
                                 \o <<".", "json">>

C7_Witness ==
    /\ last.kind = "record" /\ last.dp = 1
    /\ s3_event = [bucket |-> "archive",
                   key |-> <<"photos", "/", "trip", "/", "img001", ".", "JPG">>]
    /\ \E o \in last.put :
           /\ o.Bucket = "archive"
           /\ o.Key = <<"processed", "/", "exif", "/", "img001", ".", "json">>

\* C8: a tag that cannot be rendered is left out alone: when download and
\* upload succeed, the record is counted as processed whatever tags fail, and
\* the stored mapping holds width, height, format, mode and every tag that
\* rendered, and no tag that did not.
C8_TagContainment ==
    (last.kind = "record" /\ HasFields(s3_event) /\ last.failAt = "none") =>
        /\ last.dp = 1 /\ last.df = 0
        /\ last.put # {}
        /\ \A o \in last.put :
               /\ {"width", "height", "format", "mode"} \subseteq o.Body
               /\ \A t \in last.img.tags :
                      ToString(t) \in o.Body <=> t \notin last.img.bad

C8_Witness ==
    /\ last.kind = "record" /\ last.dp = 1
    /\ last.img.tags = {271, 272} /\ last.img.bad = {271}
    /\ \E o \in last.put : "272" \in o.Body /\ "271" \notin o.Body

\* C9: a per-record failure line names the object key of the change record
\* that failed, never the key of another record.
C9_LogNamesFailingRecord ==
    (last.kind = "record" /\ last.logged # NoLog) => last.logged = s3_event.key

====
